---- MODULE Spec2Model ----
(***************************************************************************)
(* VibesBot (src/index.js): the /vibes slash-command handler, the Spotify  *)
(* token cache it shares between requests, and the playlist search,        *)
(* scoring and fallback of getRecommendations.                             *)
(*                                                                         *)
(* Node runs every continuation to its next await without interruption, so *)
(* one action is one continuation: the arrival of the response a request   *)
(* is awaiting, and all the code that runs until its next outbound call.   *)
(* Energy, valence and the Math.random() draws are in hundredths; a score  *)
(* is in thousandths; time is in minutes.                                  *)
(***************************************************************************)
EXTENDS Integers, Sequences, FiniteSets, TLC

\* ---------------------------------------------------------------- bounds
\* The clock advances by at most Tick minutes at a time.
Tick == 25
\* The number of items a playlist of the rich catalog returns.
PlaylistLen == 9
\* The number of distinct Math.random() streams.
NumSeeds == 2

\* ------------------------------------------------------ program constants
TTL == 50
QueryLimit == 2
PlaylistLimit == 2
MinTotal == 10
MaxTotal == 200
TopN == 15
TrackLimit == 20
\* The genre search asks for as many tracks as a playlist fetch does.
FallbackLimitOfTracks == TrackLimit
FallbackLimit == 15
SearchLimit == 10
HistoryLimit == 5
RecentLimit == 3
DefaultPopularity == 50
RandomWidth == 40
RandomBias == 20

Null == 0
Requests == {"r1", "r2"}
\* The command's user_id and channel_id, and the channel that
\* conversations.open returns for a user.
UserId == "U"
ChannelId == <<"C", "origin">>
DirectChannel(user) == <<"D", user>>

\* ---------------------------------------------------------------- helpers
Min(a, b) == IF a < b THEN a ELSE b
Max(a, b) == IF a > b THEN a ELSE b
Abs(x) == IF x < 0 THEN -x ELSE x
Take(s, n) == SubSeq(s, 1, Min(n, Len(s)))
Range(s) == {s[i] : i \in 1..Len(s)}

VARIABLES
  spotifyToken,   \* the cached token, Null when empty (line 76)
  timers,         \* the tokens whose setTimeout of line 97 is still pending
                  \* (token t -> the minutes left until it fires)
  issued,         \* the number of tokens the identity endpoint has issued
  version,        \* the number of writes to spotifyToken so far
  age,            \* the minutes since spotifyToken was last assigned
  cleared,        \* the tokens a timer has removed from the cache, each with
                  \* the version that removal made
  rejected,       \* the tokens a catalog call has rejected with 401
  catalog,        \* what the catalog service holds in this run
  answers,        \* what the language model, the chat history and Math.random()
                  \* can answer in this run
  req             \* per request: the handler's position and its locals

vars == <<spotifyToken, timers, issued, version, age, cleared, rejected, catalog, answers, req>>

\* ------------------------------------------------- parseVibesText (pure)
DefaultProfile ==
  [mood |-> "chill", seed_genres |-> <<"pop">>, energy |-> 50, valence |-> 50,
   playlist_name |-> "Good Vibes",
   playlist_description |-> "A playlist for any mood.\nGenerated just for you."]

\* What JSON.parse makes of each JSON text the model can answer with. A text
\* outside the domain is not JSON. JSON.parse accepts any JSON value: the third
\* is an object without seed_genres, the fourth an object whose numbers and
\* genre list are outside the ranges the prompt asks for, the fifth a number.
JsonValue ==
  ("{melancholy}" :>
      [mood |-> "melancholy", seed_genres |-> <<"indie">>, energy |-> 25,
       valence |-> 20, playlist_name |-> "Late-Night Lament",
       playlist_description |-> "Sparse indie tracks.\nFor 2am."]) @@
  ("{energetic}" :>
      [mood |-> "energetic", seed_genres |-> <<"rock", "pop">>, energy |-> 100,
       valence |-> 0, playlist_name |-> "Full Tilt",
       playlist_description |-> "Loud.\nFast."]) @@
  ("{no genres}" :>
      [mood |-> "sad", energy |-> 25, valence |-> 20,
       playlist_name |-> "Untitled", playlist_description |-> "One line"]) @@
  ("{out of range}" :>
      [mood |-> "manic", seed_genres |-> <<"rock", "pop", "indie", "jazz">>,
       energy |-> 150, valence |-> -20, playlist_name |-> "Overdrive",
       playlist_description |-> "Too much.\nOf everything."]) @@
  ("42" :> [number |-> 42])

Texts == DOMAIN JsonValue \cup {"not json at all"}

\* The content of a language-model answer, as its lexemes: an optional opening
\* fence, the text, an optional closing fence. "<fence>" stands for the three
\* backquotes of a markdown code fence.
Contents ==
  UNION {{<<t>>, <<"<fence>json", t, "<fence>">>, <<"<fence>", t, "<fence>">>,
          <<"<fence>javascript", t, "<fence>">>, <<"<fence>json", t>>} : t \in Texts}

DropClosingFence(c) ==
  IF Len(c) > 0 /\ c[Len(c)] = "<fence>" THEN SubSeq(c, 1, Len(c) - 1) ELSE c

\* Lines 55-59: an opening json fence is removed whole; of any other opening
\* fence only the three backquotes are, so its language tag stays.
StripFence(c) ==
  IF c[1] = "<fence>json" THEN DropClosingFence(Tail(c))
  ELSE IF c[1] = "<fence>" THEN DropClosingFence(Tail(c))
  ELSE IF c[1] = "<fence>javascript" THEN DropClosingFence(<<"javascript">> \o Tail(c))
  ELSE c

\* Lines 51-72: the parsed value, or the default when JSON.parse throws.
ParseContent(c) ==
  LET content == StripFence(c)
  IN  IF Len(content) = 1 /\ content[1] \in DOMAIN JsonValue
      THEN JsonValue[content[1]]
      ELSE DefaultProfile

\* ------------------------------------------------- getContextInfo (pure)
Sentinel == <<"No recent messages">>

RECURSIVE FilterUser(_, _)
FilterUser(messages, userId) ==
  IF messages = <<>> THEN <<>>
  ELSE (IF Head(messages).user = userId THEN <<Head(messages)>> ELSE <<>>)
       \o FilterUser(Tail(messages), userId)

RECURSIVE Reverse(_)
Reverse(s) == IF s = <<>> THEN <<>> ELSE Append(Reverse(Tail(s)), Head(s))

\* The kept messages stay in the order of the history, newest first.
RecentMessagesNewestFirst(messages, userId) ==
  LET mine == Take(FilterUser(messages, userId), RecentLimit)
      texts == [i \in 1..Len(mine) |-> mine[i].text]
  IN  IF Len(texts) > 0 THEN texts ELSE Sentinel

\* Lines 133-137 and 145.
RecentMessages(messages, userId) ==
  LET mine == Take(FilterUser(messages, userId), RecentLimit)
      texts == Reverse([i \in 1..Len(mine) |-> mine[i].text])
  IN  IF Len(texts) > 0 THEN texts ELSE Sentinel

\* Channel histories, most recent first, of at most HistoryLimit messages:
\* every assignment of the authors U and V to the positions. The message at
\* position 3 has no text.
HistoryTexts == <<"a", "b", "", "c", "d">>
Histories ==
  UNION {{[i \in 1..n |-> [user |-> authors[i], text |-> HistoryTexts[i]]] :
            authors \in [1..n -> {"U", "V"}]} : n \in 0..HistoryLimit}

\* --------------------------------------------- getRecommendations (pure)
HasGenres(vibesData) == "seed_genres" \in DOMAIN vibesData

FirstGenre(vibesData) ==
  IF Len(vibesData.seed_genres) > 0 THEN vibesData.seed_genres[1] ELSE "undefined"

\* Lines 157-162: the four query strings, each as its words.
SearchQueries(vibesData) ==
  << <<vibesData.mood>> \o vibesData.seed_genres,
     vibesData.seed_genres \o <<"playlist">>,
     <<vibesData.mood, "music">>,
     <<FirstGenre(vibesData), "vibes">> >>

\* Playlists of exactly 10 or 200 tracks are kept too.
QualifyingInclusive(items) ==
  Take(SelectSeq(items, LAMBDA p : p.id # 0 /\ p.total >= MinTotal /\ p.total <= MaxTotal),
       PlaylistLimit)

\* Lines 183-185 and the slice of line 188. A null item has id 0.
Qualifying(items) ==
  Take(SelectSeq(items, LAMBDA p : p.id # 0 /\ p.total > MinTotal /\ p.total < MaxTotal),
       PlaylistLimit)

Clamp(x) == Max(0, Min(100, x))

\* The i-th kept item's k-th Math.random() * 0.4 of stream seed, in 0..39.
DrawValues == <<0, RandomWidth \div 2, RandomWidth - 1>>
Draw(seed, i, k) == DrawValues[((seed + i * k) % 3) + 1]

ValidItem(item) == item.name # 0 /\ item.artist # 0

\* Lines 195-203. An item without a track or a name has name 0, one without a
\* first artist name has artist 0; popularity 0 or missing becomes 50.
MapTracks(items, vibesData, seed) ==
  LET kept == SelectSeq(items, ValidItem)
  IN  [i \in 1..Len(kept) |->
        [name |-> <<kept[i].name, kept[i].artist>>,
         url |-> kept[i].id,
         energy |-> Clamp(Draw(seed, i, 1) + (vibesData.energy - RandomBias)),
         valence |-> Clamp(Draw(seed, i, 2) + (vibesData.valence - RandomBias)),
         popularity |-> IF kept[i].popularity = 0 THEN DefaultPopularity
                        ELSE kept[i].popularity]]

FindIndex(self, name) ==
  CHOOSE i \in 1..Len(self) :
    self[i].name = name /\ \A j \in 1..(i - 1) : self[j].name # name

RECURSIVE UniqueFrom(_, _)
UniqueFrom(allTracks, index) ==
  IF index > Len(allTracks) THEN <<>>
  ELSE (IF index = FindIndex(allTracks, allTracks[index].name)
        THEN <<allTracks[index]>> ELSE <<>>)
       \o UniqueFrom(allTracks, index + 1)

\* Of the entries with one name the last is kept.
UniqueTracksKeepLast(allTracks) ==
  SelectSeq([i \in 1..Len(allTracks) |->
               IF \E j \in (i + 1)..Len(allTracks) : allTracks[j].name = allTracks[i].name
               THEN [allTracks[i] EXCEPT !.name = <<0, 0>>] ELSE allTracks[i]],
            LAMBDA t : t.name # <<0, 0>>)

\* Lines 232-234.
UniqueTracks(allTracks) == UniqueFrom(allTracks, 1)

\* The three terms are added without their weights.
ScoreUnweighted(track, vibesData) ==
  (100 - Abs(track.energy - vibesData.energy)) * 10 +
  (100 - Abs(track.valence - vibesData.valence)) * 10 +
  track.popularity * 10

\* Lines 239-243, in thousandths.
Score(track, vibesData) ==
  (100 - Abs(track.energy - vibesData.energy)) * 4 +
  (100 - Abs(track.valence - vibesData.valence)) * 4 +
  track.popularity * 2

\* Lines 237-244.
ScoredTracks(uniqueTracks, vibesData) ==
  [i \in 1..Len(uniqueTracks) |->
    [name |-> uniqueTracks[i].name, url |-> uniqueTracks[i].url,
     energy |-> uniqueTracks[i].energy, valence |-> uniqueTracks[i].valence,
     popularity |-> uniqueTracks[i].popularity,
     score |-> Score(uniqueTracks[i], vibesData)]]

\* Array.prototype.sort is stable: x goes behind every entry that does not
\* compare after it.
RECURSIVE InsertDesc(_, _)
InsertDesc(sorted, x) ==
  IF sorted = <<>> THEN <<x>>
  ELSE IF Head(sorted).score >= x.score
       THEN <<Head(sorted)>> \o InsertDesc(Tail(sorted), x)
       ELSE <<x>> \o sorted

\* The list stays in accumulation order.
SortDescSkipped(sorted, rest) == sorted \o rest

RECURSIVE SortDesc(_, _)
SortDesc(sorted, rest) ==
  IF rest = <<>> THEN sorted ELSE SortDesc(InsertDesc(sorted, Head(rest)), Tail(rest))

\* The sorted list is returned whole.
SelectedTracksUnsliced(allTracks, vibesData) ==
  SortDesc(<<>>, ScoredTracks(UniqueTracks(allTracks), vibesData))

\* Lines 247-249.
SelectedTracks(allTracks, vibesData) ==
  Take(SortDesc(<<>>, ScoredTracks(UniqueTracks(allTracks), vibesData)), TopN)

\* Lines 259-266.
FallbackTracks(items, vibesData) ==
  LET kept == SelectSeq(items, ValidItem)
  IN  [i \in 1..Len(kept) |->
        [name |-> <<kept[i].name, kept[i].artist>>, url |-> kept[i].id,
         energy |-> vibesData.energy, valence |-> vibesData.valence]]

\* Lines 310-314: x || 0.5 is 0.5 when x is 0.
OrHalf(x) == IF x = 0 THEN 50 ELSE x
DisplayKey(t) == OrHalf(t.energy) + OrHalf(t.valence)

RECURSIVE InsertAsc(_, _)
InsertAsc(sorted, x) ==
  IF sorted = <<>> THEN <<x>>
  ELSE IF DisplayKey(Head(sorted)) <= DisplayKey(x)
       THEN <<Head(sorted)>> \o InsertAsc(Tail(sorted), x)
       ELSE <<x>> \o sorted

RECURSIVE SortAsc(_, _)
SortAsc(sorted, rest) ==
  IF rest = <<>> THEN sorted ELSE SortAsc(InsertAsc(sorted, Head(rest)), Tail(rest))

SortedTracks(tracks) == SortAsc(<<>>, tracks)

\* ------------------------------------------------------------ the catalog
Pl(id, total) == [id |-> id, total |-> total]
NullItem == Pl(0, 0)
Item(name, artist) ==
  [name |-> name, artist |-> artist, id |-> name,
   popularity |-> ((name + 4) % 5) * 25]

\* len items named base+1 .. base+len; the item at position bad, if any, has
\* no track name, the one after it no artist name.
Items(base, len, bad) ==
  [i \in 1..len |->
    IF i = bad THEN Item(0, 1)
    ELSE IF i = bad + 1 /\ bad > 0 THEN Item(base + i, 0)
    ELSE Item(base + i, 1)]

Genres == {"pop", "indie", "rock"}
AllQueries ==
  UNION {Range(SearchQueries(JsonValue[t])) :
           t \in {u \in DOMAIN JsonValue : HasGenres(JsonValue[u])}}
  \cup Range(SearchQueries(DefaultProfile))
PlaylistIds == 1..6

IsPlaylistQuery(query) == query[Len(query)] = "playlist"

\* Six playlists of which 1, 3, 4 and 6 have a size strictly between the
\* limits; playlists 1 and 3 share tracks, playlist 6 has two unusable items.
FullCatalog ==
  [search |-> [query \in AllQueries |->
      IF IsPlaylistQuery(query)
      THEN <<Pl(5, MaxTotal), Pl(3, MaxTotal - 1), Pl(6, MinTotal + 1)>>
      ELSE <<Pl(1, 50), Pl(2, MinTotal), NullItem, Pl(3, MaxTotal - 1),
             Pl(4, MinTotal + 1)>>],
   tracks |-> [id \in PlaylistIds |->
      IF id = 1 THEN Items(0, PlaylistLen, 0)
      ELSE IF id = 3 THEN Items(PlaylistLen \div 2, PlaylistLen, 0)
      ELSE IF id = 6 THEN Items(2 * PlaylistLen, PlaylistLen, 2)
      ELSE Items(50, 1, 0)],
   genre |-> [g \in Genres |-> Items(100, FallbackLimit + 2, 2)]]

\* No playlist of a usable size; the genre search has more than it is asked for.
SparseCatalog ==
  [search |-> [query \in AllQueries |->
      IF IsPlaylistQuery(query) THEN <<>>
      ELSE <<Pl(2, MinTotal), Pl(5, MaxTotal), NullItem>>],
   tracks |-> [id \in PlaylistIds |-> <<>>],
   genre |-> [g \in Genres |->
      IF g = "pop" THEN <<>> ELSE Items(100, FallbackLimit + 2, 0)]]

\* One playlist, of two tracks with the same name, for the first query.
SmallCatalog ==
  [search |-> [query \in AllQueries |->
      IF IsPlaylistQuery(query) THEN <<>> ELSE <<Pl(1, 50)>>],
   tracks |-> [id \in PlaylistIds |-> <<Item(1, 1), Item(1, 1)>>],
   genre |-> [g \in Genres |-> Items(100, 1, 0)]]

\* What the service answers when asked for at most limit items.
SearchResponse(query, limit) == Take(catalog.search[query], limit)
TracksResponse(id, limit) == Take(catalog.tracks[id], limit)
GenreResponse(genre, limit) ==
  IF genre \in Genres THEN Take(catalog.genre[genre], limit) ELSE <<>>

\* ------------------------------------------- one request's local state
\* pc is the call the request is awaiting, acked says that ack has been
\* called. The fields after coverArtUrl are
\* history: calls logs the catalog calls, recommend and failedAt say how
\* getRecommendations ended, got/exchanged/calledVer/returnedVer describe the
\* request's getSpotifyToken call, history and messages say how the
\* history request of getContextInfo ended (kept until parseVibesText
\* returns), content is the language model's answer that parseVibesText was
\* given (kept until getSpotifyToken returns or raises), images counts the
\* image-generation requests sent, posted lists the messages sent to the user.
NoData == [none |-> TRUE]

NewRequest ==
  [pc |-> "none", acked |-> FALSE, recentMessages |-> <<>>, vibesData |-> NoData, token |-> Null,
   q |-> 0, playlists |-> <<>>, allTracks |-> <<>>, tracks |-> <<>>,
   coverArtUrl |-> "", im |-> <<>>,
   calls |-> <<>>, recommend |-> "none", failedAt |-> "",
   got |-> "none", exchanged |-> FALSE, calledVer |-> 0, returnedVer |-> 0,
   history |-> "none", messages |-> <<>>, content |-> <<>>, images |-> 0,
   posted |-> <<>>]

Call(op, q, id, genre) ==
  [op |-> op, q |-> q, id |-> id, genre |-> genre, res |-> "pending"]
Log(s, call) == [s EXCEPT !.calls = Append(@, call)]
Resolve(s, res) == [s EXCEPT !.calls[Len(s.calls)].res = res]

\* Lines 349-351: the handler's catch block logs and opens the direct message.
Throw(s, stage) ==
  [s EXCEPT !.pc = "openFailure", !.failedAt = stage,
            !.recommend = IF stage \in {"token", "queries", "catalog"} THEN "raised"
                          ELSE @]

\* Lines 308-316: getRecommendations returned; the handler sorts the list in
\* place and requests the cover art.
Return(s, tracks) ==
  [s EXCEPT !.pc = "image", !.recommend = "returned", !.tracks = SortedTracks(tracks),
            !.images = @ + 1]

\* Lines 231-269: after the loops.
Finish(s) ==
  LET selectedTracks == SelectedTracks(s.allTracks, s.vibesData)
  IN  IF Len(selectedTracks) = 0
      THEN Log([s EXCEPT !.pc = "fallback"],
               Call("fallback", 0, 0, FirstGenre(s.vibesData)))
      ELSE Return(s, selectedTracks)

\* Line 171: the next of the first QueryLimit queries, or the end of the loop.
NextQuery(s, q) ==
  IF q > Min(QueryLimit, Len(SearchQueries(s.vibesData)))
  THEN Finish([s EXCEPT !.playlists = <<>>])
  ELSE Log([s EXCEPT !.pc = "search", !.q = q, !.playlists = <<>>],
           Call("search", q, 0, ""))

\* Line 188: the next qualifying playlist of this query, or the next query.
NextPlaylist(s, playlists) ==
  IF playlists = <<>> THEN NextQuery(s, s.q + 1)
  ELSE Log([s EXCEPT !.pc = "tracks", !.playlists = playlists],
           Call("tracks", s.q, Head(playlists).id, ""))

\* Lines 150-171: getSpotifyToken returned token. Building the queries reads
\* vibesData.seed_genres outside the try block.
BeginRecommend(s, token, ver) ==
  LET t == [s EXCEPT !.token = token, !.got = "returned", !.returnedVer = ver,
                     !.recommend = "running", !.content = <<>>]
  IN  IF token = Null THEN Throw(t, "token")
      ELSE IF ~HasGenres(s.vibesData) THEN Throw(t, "queries")
      ELSE NextQuery(t, 1)

Update(r, s) == req' = [req EXCEPT ![r] = s]
Shared == <<spotifyToken, timers, issued, version, age, cleared, rejected, catalog, answers>>

\* ------------------------------------------------------------ the handler
\* The handler starts with getContextInfo and leaves ack for later.
CommandWithoutAck(r) ==
  /\ req[r].pc = "none"
  /\ Update(r, [req[r] EXCEPT !.pc = "info"])
  /\ UNCHANGED Shared

\* The slash command arrives; line 303 calls ack and awaits it.
Command(r) ==
  /\ req[r].pc = "none"
  /\ Update(r, [req[r] EXCEPT !.pc = "ack", !.acked = TRUE])
  /\ UNCHANGED Shared

\* Lines 306 and 111-123: getContextInfo asks for the channel's info.
Ack(r) ==
  /\ req[r].pc = "ack"
  /\ Update(r, [req[r] EXCEPT !.pc = "info"])
  /\ UNCHANGED Shared

\* Lines 124-129: the channel's info arrived; the history is asked for.
ChannelInfoOk(r) ==
  /\ req[r].pc = "info"
  /\ Update(r, [req[r] EXCEPT !.pc = "history"])
  /\ UNCHANGED Shared

\* Lines 138-146, then 307 and 17-49: conversations.info threw, which leaves
\* the try block: the history is never asked for.
ChannelInfoError(r) ==
  /\ req[r].pc = "info"
  /\ Update(r, [req[r] EXCEPT !.pc = "llm", !.history = "unasked",
                              !.recentMessages = RecentMessages(<<>>, "U")])
  /\ UNCHANGED Shared

\* Lines 131-137 and 142-146, then 307 and 17-49.
HistoryOk(r) ==
  /\ req[r].pc = "history"
  /\ \E messages \in answers.histories :
       Update(r, [req[r] EXCEPT !.pc = "llm", !.history = "ok",
                                !.messages = messages,
                                !.recentMessages = RecentMessages(messages, "U")])
  /\ UNCHANGED Shared

\* The error of the history request leaves getContextInfo.
HistoryErrorPropagates(r) ==
  /\ req[r].pc = "history"
  /\ Update(r, Throw([req[r] EXCEPT !.history = "failed"], "context"))
  /\ UNCHANGED Shared

\* Lines 138-146, then 307 and 17-49: conversations.history threw.
HistoryError(r) ==
  /\ req[r].pc = "history"
  /\ Update(r, [req[r] EXCEPT !.pc = "llm", !.history = "failed",
                              !.recentMessages = RecentMessages(<<>>, "U")])
  /\ UNCHANGED Shared

\* Lines 35-49: the completion request is rejected. The await is outside the
\* try block, so the handler's catch block is where the error lands.
CompletionError(r) ==
  /\ req[r].pc = "llm"
  /\ Update(r, Throw(req[r], "interpret"))
  /\ UNCHANGED Shared

\* Lines 52 and 63: an answer without choices[0] throws inside the try block,
\* and the catch block reads choices[0] again to log it, which throws anew.
CompletionEmpty(r) ==
  /\ req[r].pc = "llm"
  /\ Update(r, Throw(req[r], "interpret"))
  /\ UNCHANGED Shared

\* The cache is never consulted.
CacheNeverHit == FALSE

\* Line 78: the naive cache.
CacheHit == spotifyToken # Null

\* Lines 77-94, called from line 150: the cached token at once, or the
\* credential exchange is sent.
GetSpotifyToken(s) ==
  LET t == [s EXCEPT !.calledVer = version]
  IN  IF CacheHit THEN BeginRecommend(t, spotifyToken, version)
      ELSE [t EXCEPT !.pc = "exchange", !.exchanged = TRUE]

\* Lines 51-72, then 308 and 150: the answer is parsed and getRecommendations
\* asks for the token.
CompletionOk(r) ==
  /\ req[r].pc = "llm"
  /\ \E content \in answers.contents :
       Update(r, GetSpotifyToken([req[r] EXCEPT !.vibesData = ParseContent(content),
                                                !.content = content,
                                                !.messages = <<>>,
                                                !.history = "none",
                                                !.recentMessages = <<>>]))
  /\ UNCHANGED Shared

\* What the cache held before the exchange is returned, not what was stored.
TokenOkReturnsStale(r) ==
  /\ req[r].pc = "exchange"
  /\ LET access_token == issued + 1
     IN  /\ issued' = access_token
         /\ spotifyToken' = access_token
         /\ timers' = (access_token :> TTL) @@ timers
         /\ version' = version + 1
         /\ age' = 0
         /\ Update(r, BeginRecommend(req[r], spotifyToken, version + 1))
  /\ UNCHANGED <<cleared, rejected, catalog, answers>>

\* Lines 95-98, then 152-176: the exchange answered; the token is stored,
\* its expiry scheduled, and what was stored is returned.
TokenOk(r) ==
  /\ req[r].pc = "exchange"
  /\ LET access_token == issued + 1
     IN  /\ issued' = access_token
         /\ spotifyToken' = access_token
         /\ timers' = (access_token :> TTL) @@ timers
         /\ version' = version + 1
         /\ age' = 0
         /\ Update(r, BeginRecommend(req[r], access_token, version + 1))
  /\ UNCHANGED <<cleared, rejected, catalog, answers>>

\* The rejected exchange is swallowed and the cache's content is returned.
TokenErrorReturnsCache(r) ==
  /\ req[r].pc = "exchange"
  /\ Update(r, BeginRecommend(req[r], spotifyToken, version))
  /\ UNCHANGED Shared

\* Lines 99-107: the exchange is rejected; the error is logged and rethrown.
TokenError(r) ==
  /\ req[r].pc = "exchange"
  /\ Update(r, Throw([req[r] EXCEPT !.got = "raised", !.content = <<>>], "token"))
  /\ UNCHANGED Shared

\* The callback leaves the cache as it is.
TimerFiresKeepsToken(t) ==
  /\ t \in DOMAIN timers
  /\ timers[t] = 0
  /\ timers' = [u \in DOMAIN timers \ {t} |-> timers[u]]
  /\ UNCHANGED <<spotifyToken, issued, version, age, cleared, rejected, catalog,
                 answers, req>>

\* Line 97: the callback of the setTimeout that token t's exchange scheduled.
TimerFires(t) ==
  /\ t \in DOMAIN timers
  /\ timers[t] = 0
  /\ spotifyToken' = Null
  /\ version' = version + 1
  /\ age' = 0
  /\ cleared' = IF spotifyToken = Null THEN cleared
                ELSE cleared \cup {[token |-> spotifyToken, ver |-> version + 1]}
  /\ timers' = [u \in DOMAIN timers \ {t} |-> timers[u]]
  /\ UNCHANGED <<issued, rejected, catalog, answers, req>>

\* Time passes, but not beyond the next timer that is due.
Advance ==
  /\ \A t \in DOMAIN timers : timers[t] > 0
  /\ LET next == CHOOSE d \in {timers[t] : t \in DOMAIN timers} \cup {Tick} :
                   \A t \in DOMAIN timers : d <= timers[t]
         d == Min(Tick, next)
     IN  /\ timers' = [t \in DOMAIN timers |-> timers[t] - d]
         /\ age' = IF spotifyToken = Null THEN age ELSE age + d
  /\ UNCHANGED <<spotifyToken, issued, version, cleared, rejected, catalog, answers, req>>

ErrorKinds == {"error", "unauthorized"}
Reject(kind, token) ==
  rejected' = IF kind = "unauthorized" THEN rejected \cup {token} ELSE rejected
Seeds == 0..(NumSeeds - 1)

\* Lines 180-190: the playlist search answered.
PlaylistSearchOk(r) ==
  /\ req[r].pc = "search"
  /\ LET query == SearchQueries(req[r].vibesData)[req[r].q]
         playlists == Qualifying(SearchResponse(query, SearchLimit))
     IN  Update(r, NextPlaylist(Resolve(req[r], "ok"), playlists))
  /\ UNCHANGED Shared

\* A failed search ends the loop over the queries.
PlaylistSearchErrorAborts(r) ==
  /\ req[r].pc = "search"
  /\ \E kind \in ErrorKinds : Reject(kind, req[r].token)
  /\ Update(r, Finish(Resolve(req[r], "error")))
  /\ UNCHANGED <<spotifyToken, timers, issued, version, age, cleared, catalog, answers>>

\* Lines 216-228: the playlist search failed; logged, and the loop goes on.
PlaylistSearchError(r) ==
  /\ req[r].pc = "search"
  /\ \E kind \in ErrorKinds : Reject(kind, req[r].token)
  /\ Update(r, NextQuery(Resolve(req[r], "error"), req[r].q + 1))
  /\ UNCHANGED <<spotifyToken, timers, issued, version, age, cleared, catalog, answers>>

\* Lines 195-205: a playlist's tracks arrived.
PlaylistTracksOk(r) ==
  /\ req[r].pc = "tracks"
  /\ \E seed \in answers.seeds :
       LET items == TracksResponse(Head(req[r].playlists).id, TrackLimit)
           tracks == MapTracks(items, req[r].vibesData, seed)
       IN  Update(r, NextPlaylist([Resolve(req[r], "ok") EXCEPT !.allTracks = @ \o tracks],
                                  Tail(req[r].playlists)))
  /\ UNCHANGED Shared

\* A failed fetch is not caught next to the call and reaches line 270.
PlaylistTracksErrorRethrown(r) ==
  /\ req[r].pc = "tracks"
  /\ \E kind \in ErrorKinds : Reject(kind, req[r].token)
  /\ Update(r, Throw(Resolve(req[r], "error"), "catalog"))
  /\ UNCHANGED <<spotifyToken, timers, issued, version, age, cleared, catalog, answers>>

\* Lines 206-214: fetching a playlist's tracks failed; logged, and the loop
\* goes on.
PlaylistTracksError(r) ==
  /\ req[r].pc = "tracks"
  /\ \E kind \in ErrorKinds : Reject(kind, req[r].token)
  /\ Update(r, NextPlaylist(Resolve(req[r], "error"), Tail(req[r].playlists)))
  /\ UNCHANGED <<spotifyToken, timers, issued, version, age, cleared, catalog, answers>>

\* Lines 259-266: the genre search answered.
FallbackOk(r) ==
  /\ req[r].pc = "fallback"
  /\ LET items == GenreResponse(FirstGenre(req[r].vibesData), FallbackLimit)
     IN  Update(r, Return(Resolve(req[r], "ok"),
                          FallbackTracks(items, req[r].vibesData)))
  /\ UNCHANGED Shared

\* The handler asks for the cover art although getRecommendations raised.
FallbackErrorThenCoverArt(r) ==
  /\ req[r].pc = "fallback"
  /\ \E kind \in ErrorKinds : Reject(kind, req[r].token)
  /\ Update(r, [Resolve(req[r], "error") EXCEPT
                  !.pc = "image", !.recommend = "raised", !.failedAt = "catalog",
                  !.images = @ + 1])
  /\ UNCHANGED <<spotifyToken, timers, issued, version, age, cleared, catalog, answers>>

\* Lines 270-273: the genre search failed; logged and rethrown.
FallbackError(r) ==
  /\ req[r].pc = "fallback"
  /\ \E kind \in ErrorKinds : Reject(kind, req[r].token)
  /\ Update(r, Throw(Resolve(req[r], "error"), "catalog"))
  /\ UNCHANGED <<spotifyToken, timers, issued, version, age, cleared, catalog, answers>>

\* Lines 294 and 318-343.
CoverArtOk(r) ==
  /\ req[r].pc = "image"
  /\ Update(r, [req[r] EXCEPT !.pc = "open", !.coverArtUrl = "https://image"])
  /\ UNCHANGED Shared

\* The error of the image request leaves generateCoverArt.
CoverArtErrorRaises(r) ==
  /\ req[r].pc = "image"
  /\ Update(r, Throw(req[r], "image"))
  /\ UNCHANGED Shared

\* Lines 295-298 and 318-343: no cover art.
CoverArtError(r) ==
  /\ req[r].pc = "image"
  /\ Update(r, [req[r] EXCEPT !.pc = "open", !.coverArtUrl = ""])
  /\ UNCHANGED Shared

\* Lines 343-344 and 351-352: the direct message is open; the message is sent.
OpenDM(r) ==
  /\ req[r].pc \in {"open", "openFailure"}
  /\ Update(r, [req[r] EXCEPT !.pc = IF @ = "open" THEN "post" ELSE "postFailure",
                              !.im = DirectChannel(UserId)])
  /\ UNCHANGED Shared

\* After the playlist message the handler's catch block is entered as well.
PostPlaylistThenFailure(r) ==
  /\ req[r].pc = "post"
  /\ Update(r, [req[r] EXCEPT
       !.pc = "openFailure",
       !.posted = Append(@, [kind |-> "playlist", channel |-> req[r].im,
                             image |-> req[r].coverArtUrl # "",
                             tracks |-> [i \in 1..Len(req[r].tracks) |->
                                           req[r].tracks[i].name]])])
  /\ UNCHANGED Shared

\* Lines 344-348.
PostPlaylist(r) ==
  /\ req[r].pc = "post"
  /\ Update(r, [req[r] EXCEPT
       !.pc = "done",
       !.posted = Append(@, [kind |-> "playlist", channel |-> req[r].im,
                             image |-> req[r].coverArtUrl # "",
                             tracks |-> [i \in 1..Len(req[r].tracks) |->
                                           req[r].tracks[i].name]])])
  /\ UNCHANGED Shared

\* The failure message goes to the channel the command came from.
PostFailureToChannel(r) ==
  /\ req[r].pc = "postFailure"
  /\ Update(r, [req[r] EXCEPT
       !.pc = "done",
       !.posted = Append(@, [kind |-> "failure", channel |-> ChannelId,
                             image |-> FALSE, tracks |-> <<>>])])
  /\ UNCHANGED Shared

\* Lines 352-355.
PostFailure(r) ==
  /\ req[r].pc = "postFailure"
  /\ Update(r, [req[r] EXCEPT
       !.pc = "done",
       !.posted = Append(@, [kind |-> "failure", channel |-> req[r].im,
                             image |-> FALSE, tracks |-> <<>>])])
  /\ UNCHANGED Shared

\* ------------------------------------------------------ the specifications
InitShared ==
  /\ spotifyToken = Null
  /\ timers = <<>>
  /\ issued = 0
  /\ version = 0
  /\ age = 0
  /\ cleared = {}
  /\ rejected = {}

AllAnswers == [contents |-> Contents, histories |-> Histories, seeds |-> Seeds]
FewAnswers ==
  [contents |-> {<<"{melancholy}">>}, histories |-> {<<>>}, seeds |-> {0}]

\* One request, against each catalog.
Init ==
  /\ InitShared
  /\ catalog \in {FullCatalog, SparseCatalog, SmallCatalog}
  /\ answers = AllAnswers
  /\ req = [r \in Requests |->
             IF r = "r1" THEN NewRequest ELSE [NewRequest EXCEPT !.pc = "off"]]

\* Two requests at once, against the small catalog.
InitConc ==
  /\ InitShared
  /\ catalog = SmallCatalog
  /\ answers = FewAnswers
  /\ req = [r \in Requests |-> NewRequest]

Next ==
  \/ \E r \in Requests :
       \/ Command(r) \/ Ack(r)
       \/ ChannelInfoOk(r) \/ ChannelInfoError(r) \/ HistoryOk(r) \/ HistoryError(r)
       \/ CompletionError(r) \/ CompletionEmpty(r) \/ CompletionOk(r)
       \/ TokenOk(r) \/ TokenError(r)
       \/ PlaylistSearchOk(r) \/ PlaylistSearchError(r)
       \/ PlaylistTracksOk(r) \/ PlaylistTracksError(r)
       \/ FallbackOk(r) \/ FallbackError(r)
       \/ CoverArtOk(r) \/ CoverArtError(r)
       \/ OpenDM(r) \/ PostPlaylist(r) \/ PostFailure(r)
  \/ \E t \in 1..issued : TimerFires(t)
  \/ Advance

Spec == Init /\ [][Next]_vars
SpecConc == InitConc /\ [][Next]_vars

\* The call request r is awaiting returns or fails.
Respond(r) ==
  \/ Ack(r)
  \/ ChannelInfoOk(r) \/ ChannelInfoError(r) \/ HistoryOk(r) \/ HistoryError(r)
  \/ CompletionError(r) \/ CompletionEmpty(r) \/ CompletionOk(r)
  \/ TokenOk(r) \/ TokenError(r)
  \/ PlaylistSearchOk(r) \/ PlaylistSearchError(r)
  \/ PlaylistTracksOk(r) \/ PlaylistTracksError(r)
  \/ FallbackOk(r) \/ FallbackError(r)
  \/ CoverArtOk(r) \/ CoverArtError(r)
  \/ OpenDM(r) \/ PostPlaylist(r) \/ PostFailure(r)

\* One request, with every answer of the language model and the history,
\* against the small catalog.
InitLive ==
  /\ InitShared
  /\ catalog = SmallCatalog
  /\ answers = AllAnswers
  /\ req = [r \in Requests |->
             IF r = "r1" THEN NewRequest ELSE [NewRequest EXCEPT !.pc = "off"]]

\* Every call of a request is answered in the end: a promise that settles
\* has its continuation run by the event loop.
SpecLive == InitLive /\ [][Next]_vars /\ \A r \in Requests : WF_vars(Respond(r))

\* ---------------------------------------------------- reading the history
CallsOf(r, op) == SelectSeq(req[r].calls, LAMBDA c : c.op = op)
TrackCallsOf(r, q) == SelectSeq(req[r].calls, LAMBDA c : c.op = "tracks" /\ c.q = q)
LastCall(r) == req[r].calls[Len(req[r].calls)]
Returned(r) == req[r].got = "returned"
\* Both loops of getRecommendations are over.
LoopsDone(r) ==
  req[r].pc = "fallback" \/ req[r].recommend = "returned" \/ req[r].failedAt = "catalog"
NoCandidate(r) == Len(SelectedTracks(req[r].allTracks, req[r].vibesData)) = 0
Names(tracks) == [i \in 1..Len(tracks) |-> tracks[i].name]

\* ------------------------------------------------------------------ claims

\* C1: of two getSpotifyToken calls with no write to the cache between the
\* return of the first and the start of the second, the second returns the
\* token the first returned and sends no credential exchange.
TokenReuse ==
  \A a \in Requests : \A b \in Requests \ {a} :
    (Returned(a) /\ Returned(b) /\ req[a].returnedVer = req[b].calledVer)
      => (req[b].token = req[a].token /\ ~req[b].exchanged)

\* C1 witness: one request exchanged, and the other, calling next, was
\* answered from the cache.
TokenReuseWitness ==
  \E a \in Requests : \E b \in Requests \ {a} :
    /\ Returned(a) /\ Returned(b) /\ req[a].returnedVer = req[b].calledVer
    /\ req[a].exchanged /\ ~req[b].exchanged /\ issued = 1

\* C2 as claimed: a token that a catalog call rejected with 401 does not stay
\* in the cache.
RejectedTokenDiscarded == spotifyToken = Null \/ spotifyToken \notin rejected

\* C3 as claimed: no request ends in the handler's catch block because
\* parseVibesText raised.
InterpretNeverRaises == \A r \in Requests : req[r].failedAt # "interpret"

AllSearchesErrored(r) ==
  /\ Len(CallsOf(r, "search")) = QueryLimit
  /\ \A i \in 1..QueryLimit : CallsOf(r, "search")[i].res = "error"
FallbackErrored(r) ==
  Len(req[r].calls) > 0 /\ LastCall(r).op = "fallback" /\ LastCall(r).res = "error"

\* C4 as claimed: given a profile with seed genres, getRecommendations raises
\* only if the token was not obtained, or every playlist search errored and
\* the fallback search errored too.
RecommendFailsOnlyIfAllErrored ==
  \A r \in Requests :
    (req[r].recommend = "raised" /\ HasGenres(req[r].vibesData))
      => \/ ~Returned(r)
         \/ AllSearchesErrored(r) /\ FallbackErrored(r)

\* C4 amended: getRecommendations raises only if the token was not obtained,
\* the profile has no seed_genres, or the playlist path yielded no candidate
\* and the fallback search errored; when it returns, none of these is so.
RecommendFailsOnlyIfNothingFound ==
  \A r \in Requests :
    /\ req[r].recommend = "raised"
         => \/ ~Returned(r) \/ req[r].token = Null
            \/ ~HasGenres(req[r].vibesData)
            \/ LoopsDone(r) /\ NoCandidate(r) /\ FallbackErrored(r)
    /\ req[r].recommend = "returned"
         => /\ Returned(r) /\ HasGenres(req[r].vibesData) /\ LoopsDone(r)
            /\ ~(NoCandidate(r) /\ FallbackErrored(r))

\* C4 witness: a playlist search succeeded, nothing qualified, and the
\* fallback search errored, so getRecommendations raised.
RecommendFailsWitness ==
  \E r \in Requests :
    /\ req[r].recommend = "raised" /\ FallbackErrored(r)
    /\ \E i \in 1..Len(req[r].calls) :
         req[r].calls[i].op = "search" /\ req[r].calls[i].res = "ok"

\* C5 as claimed: a finished request for which neither the playlist path nor
\* the fallback search gave a track has sent the failure message and nothing
\* else.
NoResultIsFailure ==
  \A r \in Requests :
    (/\ req[r].pc = "done" /\ LoopsDone(r) /\ NoCandidate(r)
     /\ Len(req[r].tracks) = 0)
      => [i \in 1..Len(req[r].posted) |-> req[r].posted[i].kind] = <<"failure">>

RECURSIVE FetchedNames(_, _)
\* The names of the usable tracks of the playlists whose fetch succeeded, in
\* call order.
FetchedNames(calls, vibesData) ==
  IF calls = <<>> THEN <<>>
  ELSE (IF Head(calls).op = "tracks" /\ Head(calls).res = "ok"
        THEN Names(MapTracks(TracksResponse(Head(calls).id, TrackLimit), vibesData, 0))
        ELSE <<>>)
       \o FetchedNames(Tail(calls), vibesData)

\* C6: once the loops are over, whichever calls failed, each of the first two
\* queries was searched, each of the first two qualifying playlists of every
\* search that succeeded was fetched, and the tracks of every fetch that
\* succeeded are in allTracks.
PartialFailureTolerance ==
  \A r \in Requests :
    LoopsDone(r) =>
      /\ Len(CallsOf(r, "search")) = QueryLimit
      /\ \A i \in 1..QueryLimit :
           LET search == CallsOf(r, "search")[i]
               query == SearchQueries(req[r].vibesData)[i]
               wanted == Qualifying(SearchResponse(query, SearchLimit))
               fetched == TrackCallsOf(r, i)
           IN  /\ search.q = i
               /\ IF search.res = "ok"
                  THEN [k \in 1..Len(fetched) |-> fetched[k].id]
                         = [k \in 1..Len(wanted) |-> wanted[k].id]
                  ELSE fetched = <<>>
      /\ Names(req[r].allTracks) = FetchedNames(req[r].calls, req[r].vibesData)

\* C6 witness: a search failed, a fetch failed, and a later fetch delivered.
PartialFailureWitness ==
  \E r \in Requests :
    /\ LoopsDone(r)
    /\ \E i \in 1..Len(req[r].calls) : \E j \in (i + 1)..Len(req[r].calls) :
         /\ req[r].calls[i].op = "tracks" /\ req[r].calls[i].res = "error"
         /\ req[r].calls[j].op = "tracks" /\ req[r].calls[j].res = "ok"
    /\ \E i \in 1..Len(req[r].calls) :
         req[r].calls[i].op = "search" /\ req[r].calls[i].res = "error"
    /\ Len(req[r].allTracks) > 0

\* C7: when the playlist path ends without a candidate, exactly one genre
\* search is sent, for the first seed genre, and what getRecommendations
\* returns from it is at most 15 tracks that all carry the profile's energy
\* and valence.
FallbackActivation ==
  \A r \in Requests :
    (LoopsDone(r) /\ NoCandidate(r)) =>
      /\ Len(CallsOf(r, "fallback")) = 1
      /\ LastCall(r).op = "fallback"
      /\ LastCall(r).genre = req[r].vibesData.seed_genres[1]
      /\ req[r].recommend = "returned" =>
           /\ Len(req[r].tracks) <= 15
           /\ \A i \in 1..Len(req[r].tracks) :
                /\ req[r].tracks[i].energy = req[r].vibesData.energy
                /\ req[r].tracks[i].valence = req[r].vibesData.valence

\* C7 witness: the fallback search returned 15 tracks.
FallbackWitness ==
  \E r \in Requests :
    /\ LoopsDone(r) /\ NoCandidate(r) /\ req[r].recommend = "returned"
    /\ Len(req[r].tracks) = 15

\* C8: whatever getRecommendations returns has at most 15 entries.
ResultSizeBound ==
  \A r \in Requests : req[r].recommend = "returned" => Len(req[r].tracks) <= 15

\* C8 witness: the playlist path had more than 15 distinct candidates and
\* returned 15.
ResultSizeWitness ==
  \E r \in Requests :
    /\ req[r].recommend = "returned" /\ ~NoCandidate(r)
    /\ Len(UniqueTracks(req[r].allTracks)) > 15
    /\ Len(req[r].tracks) = 15

\* C9: every getSpotifyToken call that returned, returned a token the
\* identity endpoint issued, and the cache holds either nothing or such a
\* token.
ConcurrentRefreshSafe ==
  /\ spotifyToken # Null => spotifyToken \in 1..issued
  /\ \A r \in Requests : Returned(r) => req[r].token \in 1..issued

\* C9 witness: both requests missed the cache, both exchanged, and a timer
\* fired before the second of them was answered.
ConcurrentRefreshWitness ==
  /\ \A r \in Requests : Returned(r) /\ req[r].exchanged
  /\ req["r1"].token # req["r2"].token
  /\ \E c \in cleared : \E r \in Requests : c.ver < req[r].returnedVer

\* C10: a token is never in the cache more than 50 minutes after the exchange
\* that stored it, and no getSpotifyToken call returns a token that a timer
\* had removed from the cache before the call.
ExpiryForcesRefresh ==
  /\ spotifyToken # Null => age <= 50
  /\ \A r \in Requests : \A c \in cleared :
       (Returned(r) /\ c.ver <= req[r].calledVer) => req[r].token # c.token

\* C10 witness: a request called getSpotifyToken after a timer had emptied
\* the cache, and got a new token from an exchange.
ExpiryWitness ==
  \E r \in Requests : \E c \in cleared :
    /\ Returned(r) /\ c.ver <= req[r].calledVer
    /\ req[r].exchanged /\ req[r].token > c.token

PostedKinds(r) == [i \in 1..Len(req[r].posted) |-> req[r].posted[i].kind]
\* The exchange of request r is rejected in this step.
ExchangeRejected(r) ==
  req[r].pc = "exchange" /\ req'[r].pc # "exchange" /\ issued' = issued

\* C11: a rejected credential exchange makes getSpotifyToken raise and writes
\* neither the cache nor a timer, so a cache that was empty stays empty; the
\* request whose exchange was rejected sends no catalog call and no image
\* request, goes to the handler's catch block, and the one message it posts
\* is the failure message.
ExchangeFailureIsFatal ==
  /\ [][\A r \in Requests :
          ExchangeRejected(r) =>
            /\ req'[r].got = "raised" /\ req'[r].pc = "openFailure"
            /\ spotifyToken' = spotifyToken /\ timers' = timers]_vars
  /\ [](\A r \in Requests :
          req[r].got = "raised" =>
            /\ req[r].calls = <<>> /\ req[r].images = 0
            /\ req[r].pc \in {"openFailure", "postFailure", "done"}
            /\ PostedKinds(r) = IF req[r].pc = "done" THEN <<"failure">> ELSE <<>>)

\* C11 witness: the only exchange sent was rejected; the cache is empty, no
\* timer is pending, and the request has posted the failure message.
ExchangeFailureWitness ==
  \E r \in Requests :
    /\ req[r].got = "raised" /\ req[r].pc = "done"
    /\ PostedKinds(r) = <<"failure">>
    /\ spotifyToken = Null /\ timers = <<>> /\ issued = 0

\* The answer's text between its fence markers, if it has any.
Body(content) == CHOOSE t \in Texts : t \in Range(content)
JsonObjects == {t \in DOMAIN JsonValue : "number" \notin DOMAIN JsonValue[t]}
Interpreted(r) == req[r].content # <<>>

\* C12 as claimed: whenever the answer's text, without its fence markers, is
\* not a JSON object, parseVibesText returns the default profile.
ParseFallback ==
  \A r \in Requests :
    (Interpreted(r) /\ Body(req[r].content) \notin JsonObjects)
      => req[r].vibesData = DefaultProfile

ProfileFields == DOMAIN DefaultProfile

\* C13 as claimed: whenever the answer's text is a JSON object that lacks a
\* field of the profile, parseVibesText returns the default profile.
IncompleteFallsBack ==
  \A r \in Requests :
    (/\ Interpreted(r) /\ Body(req[r].content) \in JsonObjects
     /\ DOMAIN JsonValue[Body(req[r].content)] # ProfileFields)
      => req[r].vibesData = DefaultProfile

\* C14 as claimed: a profile that getRecommendations builds its queries from
\* has one to three seed genres, and an energy and a valence between 0 and 1.
ProfileInRange ==
  \A r \in Requests :
    (req[r].recommend # "none" /\ HasGenres(req[r].vibesData)) =>
      /\ Len(req[r].vibesData.seed_genres) \in 1..3
      /\ req[r].vibesData.energy \in 0..100
      /\ req[r].vibesData.valence \in 0..100

\* C15: no request ends in the handler's catch block because getContextInfo
\* raised, and when the history request throws, the handler goes on to
\* parseVibesText with the sentinel as recentMessages.
ContextAlwaysSucceeds ==
  \A r \in Requests :
    /\ req[r].failedAt # "context"
    /\ (req[r].history = "failed" /\ req[r].pc = "llm")
         => req[r].recentMessages = Sentinel

\* C15 witness: the history request threw and the completion request has
\* been sent, with the sentinel in its prompt.
ContextFailureWitness ==
  \E r \in Requests :
    /\ req[r].history = "failed" /\ req[r].pc = "llm"
    /\ req[r].recentMessages = Sentinel /\ req[r].failedAt = ""

\* C16 as claimed: when conversations.info throws, the history is still asked
\* for.
InfoFailureKeepsHistory ==
  [][\A r \in Requests :
       (req[r].pc = "info" /\ req'[r].pc # "info") => req'[r].pc = "history"]_vars

\* The position in messages of the n-th message, from the most recent, that
\* the user wrote.
NthOf(messages, userId, n) ==
  CHOOSE i \in 1..Len(messages) :
    /\ messages[i].user = userId
    /\ Cardinality({j \in 1..i : messages[j].user = userId}) = n
CountOf(messages, userId) ==
  Cardinality({i \in 1..Len(messages) : messages[i].user = userId})

\* C17: for the history the channel answered with, recentMessages is the
\* texts of the user's at most 3 most recent messages, oldest first, or the
\* sentinel alone when the user wrote none; it has 1 to 3 entries.
RecentSelection ==
  \A r \in Requests :
    (req[r].history = "ok" /\ req[r].pc = "llm") =>
      LET messages == req[r].messages
          recent == req[r].recentMessages
          k == Min(RecentLimit, CountOf(messages, "U"))
      IN  /\ Len(messages) <= 5
          /\ Len(recent) \in 1..3
          /\ IF k = 0 THEN recent = Sentinel
             ELSE /\ Len(recent) = k
                  /\ \A j \in 1..k :
                       recent[j] = messages[NthOf(messages, "U", k + 1 - j)].text

\* C17 witness: of five messages the user wrote four, and the three most
\* recent of them are returned oldest first, a message of another author
\* between them left out.
RecentSelectionWitness ==
  \E r \in Requests :
    /\ req[r].history = "ok" /\ req[r].pc = "llm"
    /\ [i \in 1..Len(req[r].messages) |-> req[r].messages[i].user]
         = <<"U", "V", "U", "U", "U">>
    /\ req[r].recentMessages = <<"c", "", "a">>

\* C18: whichever way the image request ends, the handler goes on to open
\* the direct message; no request sends more than one image request; and a
\* request whose image request failed posts the playlist message, without
\* an image block, and no failure message.
CoverArtBestEffort ==
  /\ [][\A r \in Requests :
          (req[r].pc = "image" /\ req'[r].pc # "image") =>
            /\ req'[r].pc = "open" /\ req'[r].failedAt = ""
            /\ req'[r].coverArtUrl \in {"", "https://image"}]_vars
  /\ [](\A r \in Requests :
          /\ req[r].images <= 1
          /\ req[r].failedAt # "image"
          /\ (req[r].pc = "done" /\ req[r].images = 1 /\ req[r].coverArtUrl = "")
               => /\ PostedKinds(r) = <<"playlist">>
                  /\ ~req[r].posted[1].image)

\* C18 witness: the image request failed and the playlist message, with
\* tracks and without an image, was posted.
CoverArtFailureWitness ==
  \E r \in Requests :
    /\ req[r].pc = "done" /\ req[r].images = 1 /\ req[r].coverArtUrl = ""
    /\ PostedKinds(r) = <<"playlist">> /\ ~req[r].posted[1].image
    /\ Len(req[r].posted[1].tracks) > 0

\* C19: every message a request has posted, playlist or failure, went to the
\* channel conversations.open returned for the command's user, and none to
\* the channel the command came from.
DeliveryTarget ==
  \A r \in Requests : \A i \in 1..Len(req[r].posted) :
    /\ req[r].posted[i].channel = DirectChannel(UserId)
    /\ req[r].posted[i].channel # ChannelId

\* C19 witness: a failure message has been posted.
DeliveryWitness ==
  \E r \in Requests :
    /\ req[r].pc = "done" /\ PostedKinds(r) = <<"failure">>
    /\ req[r].posted[1].channel = DirectChannel(UserId)

\* C20 as claimed: the tracks of a posted playlist message are in
\* non-decreasing order of energy + valence.
DisplayOrder ==
  \A r \in Requests :
    (req[r].pc = "done" /\ PostedKinds(r) = <<"playlist">>) =>
      /\ req[r].posted[1].tracks = Names(req[r].tracks)
      /\ \A i \in 1..Len(req[r].tracks) : \A j \in i..Len(req[r].tracks) :
           req[r].tracks[i].energy + req[r].tracks[i].valence
             <= req[r].tracks[j].energy + req[r].tracks[j].valence

\* The calls a request awaits that belong to the curation pipeline.
PipelinePcs ==
  {"info", "history", "llm", "exchange", "search", "tracks", "fallback", "image",
   "open", "post", "openFailure", "postFailure"}

\* C21: a request that is awaiting, or has made, any outbound call of the
\* pipeline (history, completion, exchange, catalog, image, direct message)
\* has called ack before, and the first thing a request does is call ack.
AckFirst ==
  /\ [](\A r \in Requests :
          (\/ req[r].pc \in PipelinePcs \cup {"done"}
           \/ req[r].history # "none" \/ req[r].content # <<>> \/ req[r].exchanged
           \/ req[r].calls # <<>> \/ req[r].images > 0 \/ req[r].posted # <<>>)
            => req[r].acked)
  /\ [][\A r \in Requests :
          (req[r].pc = "none" /\ req'[r].pc # "none") => req'[r].pc = "ack"]_vars

\* C21 witness: the acknowledged request is awaiting its first pipeline call.
AckFirstWitness ==
  \E r \in Requests : req[r].acked /\ req[r].pc = "info" /\ req[r].history = "none"

\* The stage a request is in: 1 context collection, 2 mood interpretation,
\* 3 catalog search and scoring, 4 cover art, 5 delivery.
Stage(s) ==
  IF s.pc \in {"none", "ack", "off"} THEN 0
  ELSE IF s.pc \in {"info", "history"} THEN 1
  ELSE IF s.pc = "llm" THEN 2
  ELSE IF s.pc \in {"exchange", "search", "tracks", "fallback"} THEN 3
  ELSE IF s.pc = "image" THEN 4
  ELSE 5

\* C22: a request is in one stage at a time and moves from a stage to the
\* next one only, except that a failure of interpretation or of the catalog
\* engine moves it to the delivery of the failure message; the cover art is
\* asked for only after getRecommendations returned, and never when it raised.
PipelineOrder ==
  /\ [][\A r \in Requests :
          LET a == Stage(req[r])
              b == Stage(req'[r])
          IN  \/ b = a
              \/ b = a + 1 /\ (b = 5 => req'[r].pc = "open")
              \/ a \in {2, 3} /\ req'[r].pc = "openFailure"]_vars
  /\ [](\A r \in Requests :
          /\ req[r].recommend = "raised" => req[r].images = 0
          /\ req[r].images > 0 => req[r].recommend = "returned"
          /\ req[r].recommend # "none" => req[r].vibesData # NoData)

\* C22 witness: the catalog engine raised after its calls, and the request
\* ended with the failure message and no image request.
PipelineOrderWitness ==
  \E r \in Requests :
    /\ req[r].pc = "done" /\ req[r].recommend = "raised" /\ req[r].calls # <<>>
    /\ req[r].images = 0 /\ PostedKinds(r) = <<"failure">>

\* The position in allTracks of the first entry with the name of entry i.
FirstOf(allTracks, i) ==
  CHOOSE k \in 1..i :
    /\ allTracks[k].name = allTracks[i].name
    /\ \A j \in 1..(k - 1) : allTracks[j].name # allTracks[i].name

\* C23: once the loops are over, the deduplicated list has no name twice,
\* has every name of allTracks, each of its entries is the first entry of
\* allTracks with that name, and it is in accumulation order.
Deduplication ==
  \A r \in Requests :
    LoopsDone(r) =>
      LET allTracks == req[r].allTracks
          uniqueTracks == UniqueTracks(allTracks)
          firsts == {i \in 1..Len(allTracks) : FirstOf(allTracks, i) = i}
      IN  /\ \A i \in 1..Len(uniqueTracks) : \A j \in 1..Len(uniqueTracks) :
               uniqueTracks[i].name = uniqueTracks[j].name => i = j
          /\ \A i \in 1..Len(allTracks) : \E j \in 1..Len(uniqueTracks) :
               /\ uniqueTracks[j].name = allTracks[i].name
               /\ uniqueTracks[j] = allTracks[FirstOf(allTracks, i)]
          /\ Len(uniqueTracks) = Cardinality(firsts)
          /\ \A j \in 1..Len(uniqueTracks) :
               \E i \in firsts :
                 /\ uniqueTracks[j] = allTracks[i]
                 /\ Cardinality({k \in firsts : k <= i}) = j

\* C23 witness: two entries of allTracks have one name and differ in energy
\* or valence, and the deduplicated list is shorter than allTracks.
DeduplicationWitness ==
  \E r \in Requests :
    /\ LoopsDone(r)
    /\ \E i \in 1..Len(req[r].allTracks) : \E j \in (i + 1)..Len(req[r].allTracks) :
         /\ req[r].allTracks[i].name = req[r].allTracks[j].name
         /\ req[r].allTracks[i] # req[r].allTracks[j]
    /\ Len(UniqueTracks(req[r].allTracks)) < Len(req[r].allTracks)

\* The playlist path of request r returned its selection.
PlaylistPath(r) == req[r].recommend = "returned" /\ ~NoCandidate(r)
\* 0.4 * (1 - |e - te|) + 0.4 * (1 - |v - tv|) + 0.2 * (p / 100), in thousandths.
ClaimedScore(track, target) ==
  LET de == IF track.energy >= target.energy THEN track.energy - target.energy
            ELSE target.energy - track.energy
      dv == IF track.valence >= target.valence THEN track.valence - target.valence
            ELSE target.valence - track.valence
  IN  4 * (100 - de) + 4 * (100 - dv) + 2 * track.popularity

\* C24: what the playlist path returns is min(15, number of unique
\* candidates) unique candidates, each with the score of the formula, in
\* non-increasing order of score; no candidate left out has a higher score
\* than a returned one; of two candidates with the same energy and valence
\* the more popular one comes first; and the handler displays these tracks.
RankingTopFifteen ==
  \A r \in Requests :
    PlaylistPath(r) =>
      LET target == req[r].vibesData
          uniqueTracks == UniqueTracks(req[r].allTracks)
          selectedTracks == SelectedTracks(req[r].allTracks, target)
          n == Len(selectedTracks)
          chosen == {selectedTracks[i].name : i \in 1..n}
      IN  /\ n = Min(15, Len(uniqueTracks))
          /\ \A i \in 1..n :
               /\ selectedTracks[i].score = ClaimedScore(selectedTracks[i], target)
               /\ \E j \in 1..Len(uniqueTracks) :
                    /\ uniqueTracks[j].name = selectedTracks[i].name
                    /\ uniqueTracks[j].energy = selectedTracks[i].energy
                    /\ uniqueTracks[j].valence = selectedTracks[i].valence
                    /\ uniqueTracks[j].popularity = selectedTracks[i].popularity
          /\ Cardinality(chosen) = n
          /\ \A i \in 1..n : \A j \in i..n :
               selectedTracks[i].score >= selectedTracks[j].score
          /\ \A j \in 1..Len(uniqueTracks) :
               uniqueTracks[j].name \notin chosen =>
                 \A i \in 1..n :
                   ClaimedScore(uniqueTracks[j], target) <= selectedTracks[i].score
          /\ \A i \in 1..n : \A j \in 1..n :
               (/\ selectedTracks[i].energy = selectedTracks[j].energy
                /\ selectedTracks[i].valence = selectedTracks[j].valence
                /\ selectedTracks[i].popularity > selectedTracks[j].popularity) => i < j
          /\ {req[r].tracks[i] : i \in 1..Len(req[r].tracks)}
               = {selectedTracks[i] : i \in 1..n}

\* C24 witness: more than 15 unique candidates, of which one that was left
\* out scores less than the last one returned, and two returned ones differ
\* in popularity alone.
RankingWitness ==
  \E r \in Requests :
    /\ PlaylistPath(r)
    /\ LET target == req[r].vibesData
           uniqueTracks == UniqueTracks(req[r].allTracks)
           selectedTracks == SelectedTracks(req[r].allTracks, target)
       IN  /\ Len(uniqueTracks) > 15 /\ Len(selectedTracks) = 15
           /\ \E j \in 1..Len(uniqueTracks) :
                ClaimedScore(uniqueTracks[j], target) < selectedTracks[15].score
           /\ \E i \in 1..15 : \E j \in (i + 1)..15 :
                /\ selectedTracks[i].energy = selectedTracks[j].energy
                /\ selectedTracks[i].valence = selectedTracks[j].valence
                /\ selectedTracks[i].popularity > selectedTracks[j].popularity

ValidProfile(vibesData) ==
  /\ HasGenres(vibesData)
  /\ vibesData.energy \in 0..100 /\ vibesData.valence \in 0..100

\* C25: for a profile with energy and valence in [0,1], every candidate of the
\* playlist path has energy and valence in [0,1] and a popularity in
\* [0,100], and its score is in [0,1].
ScoreRange ==
  \A r \in Requests :
    (LoopsDone(r) /\ ValidProfile(req[r].vibesData)) =>
      LET scoredTracks == ScoredTracks(UniqueTracks(req[r].allTracks), req[r].vibesData)
      IN  \A i \in 1..Len(scoredTracks) :
            /\ scoredTracks[i].energy \in 0..100
            /\ scoredTracks[i].valence \in 0..100
            /\ scoredTracks[i].popularity \in 0..100
            /\ scoredTracks[i].score \in 0..1000

\* C25 witness: candidates of a valid profile of which one was clamped at 0
\* and one at 1.
ScoreRangeWitness ==
  \E r \in Requests :
    /\ LoopsDone(r) /\ ValidProfile(req[r].vibesData)
    /\ \E i \in 1..Len(req[r].allTracks) : \E j \in 1..Len(req[r].allTracks) :
         req[r].allTracks[i].valence = 0 /\ req[r].allTracks[j].energy = 100

\* The positions, in the answer to query q of request r, of the playlists
\* with more than 10 and fewer than 200 tracks.
SizedPositions(r, q) ==
  LET items == SearchResponse(SearchQueries(req[r].vibesData)[q], SearchLimit)
  IN  {i \in 1..Len(items) : items[i].id # 0 /\ items[i].total > 10 /\ items[i].total < 200}

ExactlyOneMessage ==
  /\ \A r \in Requests :
       (req[r].pc = "info") ~> (req[r].pc = "done" /\ Len(req[r].posted) = 1)
  /\ [](\A r \in Requests :
          /\ Len(req[r].posted) <= 1
          /\ req[r].pc = "done" =>
               PostedKinds(r) \in {<<"playlist">>, <<"failure">>}
          /\ req[r].posted # <<>> => req[r].pc = "done")

\* C27 witness: a request is done and its one message is the playlist.
OneMessageWitness ==
  \E r \in Requests :
    /\ req[r].acked /\ req[r].pc = "done"
    /\ PostedKinds(r) = <<"playlist">> /\ req[r].failedAt = ""

\* C28 as claimed: a token is not removed from the cache before it has been
\* there for 50 minutes.
NoPrematureInvalidation ==
  [][(spotifyToken # Null /\ spotifyToken' = Null) => age >= 50]_vars
====
